---- MODULE Spec2Model ----
(***************************************************************************)
(* static/animated-borders.js: two DOMContentLoaded listeners that wrap    *)
(* form inputs and buttons of the document in decorative wrapper elements. *)
(*                                                                         *)
(* The document is a tree of elements.  childNodes gives every node's      *)
(* ordered child list, attrs the attributes the script reads or writes,    *)
(* computed the width getComputedStyle reports.  One step of the model is  *)
(* one querySelectorAll call or one invocation of a forEach callback (the  *)
(* script is single-threaded, a callback runs to completion).              *)
(***************************************************************************)
EXTENDS Integers, Sequences, FiniteSets, TLC

\* Number of elements below the document's root element.
MaxElems == 2

\* The document node, parent of the root element.
DOCUMENT == 0
\* The root element (document.documentElement).
ROOT == 1
\* null: what closest() and parentNode give when there is nothing.
NULL == -1

VARIABLES
    childNodes,  \* node -> sequence of its children, in order
    attrs,       \* element -> [tagName, type, classList, styleWidth, styleDisplay]
    computed,    \* element of the page -> getComputedStyle(element).width
    todo,        \* listener invocations still to run; each a sequence of passes
    list,        \* the NodeList the running forEach iterates
    idx,         \* position of the next callback in list; 0: not queried yet
    pre,         \* observation: childNodes when the running/last pass started
    tree0,       \* observation: childNodes of the page as loaded
    visits,      \* observation: one record per callback invocation
    done         \* observation: the passes finished so far

vars == <<childNodes, attrs, computed, todo, list, idx, pre, tree0, visits, done>>

\* The four passes: 1, 2 are the first listener's inputs and buttons loops,
\* 3, 4 the second listener's.
Passes == {1, 2, 3, 4}

INPUT_WRAPPER == "input-animated-wrapper"
BTN_WRAPPER == "btn-animated-wrapper"

(***************************************************************************)
(* DOM primitives                                                          *)
(***************************************************************************)

Elements == DOMAIN attrs

Contains(s, x) == \E i \in 1..Len(s) : s[i] = x

IndexOf(s, x) == CHOOSE i \in 1..Len(s) : s[i] = x

RemoveAt(s, i) == SubSeq(s, 1, i - 1) \o SubSeq(s, i + 1, Len(s))

InsertAt(s, i, x) == SubSeq(s, 1, i - 1) \o <<x>> \o SubSeq(s, i, Len(s))

\* node.parentNode
ParentNode(ch, n) ==
    IF \E p \in DOMAIN ch : Contains(ch[p], n)
    THEN CHOOSE p \in DOMAIN ch : Contains(ch[p], n)
    ELSE NULL

\* Detach a node from its parent, if it has one (first step of every insertion).
Detach(ch, n) ==
    LET p == ParentNode(ch, n)
    IN IF p = NULL THEN ch ELSE [ch EXCEPT ![p] = RemoveAt(@, IndexOf(@, n))]

\* parent.insertBefore(node, ref) appended at the end instead (a faulty variant).
InsertBeforeAtEnd(ch, parent, node, ref) ==
    LET d == Detach(ch, node)
    IN [d EXCEPT ![parent] = Append(@, node)]

\* parent.insertBefore(node, ref)
InsertBefore(ch, parent, node, ref) ==
    LET d == Detach(ch, node)
    IN [d EXCEPT ![parent] = InsertAt(@, IndexOf(@, ref), node)]

\* parent.appendChild(node)
AppendChild(ch, parent, node) ==
    LET d == Detach(ch, node)
    IN [d EXCEPT ![parent] = Append(@, node)]

\* Inserting an element into the document node, which already holds its one
\* element child, throws HierarchyRequestError.
InsertThrows(ch, parent) == parent = DOCUMENT /\ Len(ch[DOCUMENT]) >= 1

RECURSIVE DocOrder(_, _)
RECURSIVE DocOrderSeq(_, _)
\* The elements of the subtree of n, in document order.
DocOrder(ch, n) == <<n>> \o DocOrderSeq(ch, ch[n])
DocOrderSeq(ch, s) ==
    IF s = <<>> THEN <<>> ELSE DocOrder(ch, Head(s)) \o DocOrderSeq(ch, Tail(s))

\* A selector list is a set of compound selectors, each a record: tagName and
\* type ("" when unconstrained) and class ("" when unconstrained).
TagSel(tag) == [tagName |-> tag, type |-> "", class |-> ""]
TypeSel(tag, type) == [tagName |-> tag, type |-> type, class |-> ""]
ClassSel(cls) == [tagName |-> "", type |-> "", class |-> cls]

\* element.matches(selector list)
Matches(e, selector) ==
    \E s \in selector :
        /\ s.tagName = "" \/ e.tagName = s.tagName
        /\ s.type = "" \/ e.type = s.type
        /\ s.class = "" \/ s.class \in e.classList

\* Every element, ignoring the selector (a faulty variant).
QuerySelectorAllAny(ch, at, selector) == DocOrderSeq(ch, ch[DOCUMENT])

\* document.querySelectorAll(selector): a static list in document order.
QuerySelectorAll(ch, at, selector) ==
    SelectSeq(DocOrderSeq(ch, ch[DOCUMENT]), LAMBDA n : Matches(at[n], selector))

RECURSIVE Closest(_, _, _, _)
\* element.closest('.' + cls): the element itself or its nearest ancestor
\* element carrying the class, else null.
Closest(ch, at, n, cls) ==
    IF n = NULL \/ n = DOCUMENT THEN NULL
    ELSE IF cls \in at[n].classList THEN n
    ELSE Closest(ch, at, ParentNode(ch, n), cls)

\* document.createElement('div') with className set.
NewDiv(cls, width, display) ==
    [tagName |-> "div", type |-> "", classList |-> {cls},
     styleWidth |-> width, styleDisplay |-> display]

\* The identity of the next created element.
NewId == Cardinality(Elements) + 1

(***************************************************************************)
(* The script's selectors                                                  *)
(***************************************************************************)

\* 'input[type="text"], input[type="email"], input[type="password"], select, textarea'
InputSelector1 ==
    {TypeSel("input", "text"), TypeSel("input", "email"),
     TypeSel("input", "password"), TagSel("select"), TagSel("textarea")}

\* '.btn-primary, .submit-btn, button[type="submit"]'
ButtonSelector1 ==
    {ClassSel("btn-primary"), ClassSel("submit-btn"), TypeSel("button", "submit")}

\* 'input[type="text"], input[type="email"], input[type="password"], .search-input, select, textarea'
InputSelector2 ==
    {TypeSel("input", "text"), TypeSel("input", "email"),
     TypeSel("input", "password"), ClassSel("search-input"),
     TagSel("select"), TagSel("textarea")}

\* '.btn, .btn-primary, .btn-secondary, .btn-danger, .submit-btn, button[type="submit"]'
ButtonSelector2 ==
    {ClassSel("btn"), ClassSel("btn-primary"), ClassSel("btn-secondary"),
     ClassSel("btn-danger"), ClassSel("submit-btn"), TypeSel("button", "submit")}

\* The classes whose bearers a pass's callback returns on without wrapping.
InputExcluded1 == {"search-input"}
ButtonExcluded1 == {"nav-btn", "tab-btn", "card-btn"}
InputExcluded2 == {}
ButtonExcluded2 == {"nav-btn", "tab-btn"}

(***************************************************************************)
(* The pages the script is run on                                          *)
(***************************************************************************)

Elem(tag, type, classes, width, cwidth) ==
    [tagName |-> tag, type |-> type, classList |-> classes,
     styleWidth |-> width, styleDisplay |-> "", computedWidth |-> cwidth]

\* The elements a page is built from.  computedWidth "" stands for a page
\* without layout, where getComputedStyle gives no width.
Profiles ==
    {Elem("input", "text", {}, "", "150px"),
     Elem("input", "text", {"search-input"}, "200px", "150px"),
     Elem("input", "text", {"btn-primary"}, "200px", "150px"),
     Elem("select", "", {}, "", ""),
     Elem("button", "submit", {}, "", "80px"),
     Elem("a", "", {"btn-primary", "card-btn"}, "", "auto"),
     Elem("a", "", {"btn", "nav-btn"}, "", "auto"),
     Elem("div", "", {"btn"}, "", "300px"),
     Elem("div", "", {}, "", "300px"),
     Elem("div", "", {INPUT_WRAPPER}, "", "300px"),
     Elem("div", "", {BTN_WRAPPER}, "", "300px")}

\* What the root element may be.
RootProfiles ==
    {Elem("html", "", {}, "", "800px"),
     Elem("html", "", {"btn-primary"}, "", "800px"),
     Elem("html", "", {"search-input"}, "", "800px")}

PageElems == 1..(MaxElems + 1)

RECURSIVE AncestorsIn(_, _)
\* The inclusive ancestors of element i under the parent vector par.
AncestorsIn(par, i) == IF i = ROOT THEN {ROOT} ELSE {i} \cup AncestorsIn(par, par[i])

\* The trees over the page's elements, numbered in document order: each
\* element hangs below the previous one or below one of its ancestors.
ParentVectors ==
    {par \in [PageElems \ {ROOT} -> PageElems] :
        \A i \in PageElems \ {ROOT} :
            /\ par[i] < i
            /\ i > ROOT + 1 => par[i] \in AncestorsIn(par, i - 1)}

RECURSIVE Ascending(_)
\* A finite set of numbers as an ascending sequence.
Ascending(S) ==
    IF S = {} THEN <<>>
    ELSE LET m == CHOOSE x \in S : \A y \in S : x <= y
         IN <<m>> \o Ascending(S \ {m})

\* The first listener's two loops, then the second listener's.
PageLoad == <<<<1, 2>>, <<3, 4>>>>

\* One pass invoked twice in a row.
Reruns == {<<<<p>>, <<p>>>> : p \in Passes}

InitPage ==
    \E par \in ParentVectors, prof \in [PageElems \ {ROOT} -> Profiles],
       rp \in RootProfiles :
        LET p == [i \in PageElems |-> IF i = ROOT THEN rp ELSE prof[i]]
            tree == [n \in {DOCUMENT} \cup PageElems |->
                        IF n = DOCUMENT THEN <<ROOT>>
                        ELSE Ascending({i \in PageElems \ {ROOT} : par[i] = n})]
        IN /\ attrs = [i \in PageElems |->
                          [tagName |-> p[i].tagName, type |-> p[i].type,
                           classList |-> p[i].classList,
                           styleWidth |-> p[i].styleWidth,
                           styleDisplay |-> p[i].styleDisplay]]
           /\ computed = [i \in PageElems |-> p[i].computedWidth]
           /\ childNodes = tree
           /\ pre = tree
           /\ tree0 = tree
           /\ list = <<>>
           /\ idx = 0
           /\ visits = <<>>
           /\ done = <<>>

\* The page as loaded, both listeners registered.
Init == InitPage /\ todo = PageLoad

\* A page on which one pass is about to be invoked twice.
InitRerun == InitPage /\ todo \in Reruns

(***************************************************************************)
(* Control: listeners, passes, callbacks                                   *)
(***************************************************************************)

\* The pass whose querySelectorAll or forEach is next to run.
Current == IF todo = <<>> THEN 0 ELSE Head(Head(todo))

\* After a pass returns normally: the listener's next pass, or the next listener.
Advance(t) == IF Len(Head(t)) > 1 THEN <<Tail(Head(t))>> \o Tail(t) ELSE Tail(t)

\* What is recorded of one callback invocation: the pass, which pass run it
\* belongs to, the element, how the callback ended, the wrapper it created.
Visit(p, target, outcome, wrapper) ==
    [pass |-> p, run |-> Len(done) + 1, target |-> target,
     outcome |-> outcome, wrapper |-> wrapper]

\* The callback returned: forEach moves to the next element of the list, or,
\* past the last one, the pass is over.
Return(p, target, outcome, wrapper) ==
    /\ visits' = Append(visits, Visit(p, target, outcome, wrapper))
    /\ UNCHANGED <<computed, pre, tree0>>
    /\ IF idx < Len(list)
       THEN /\ idx' = idx + 1
            /\ UNCHANGED <<list, todo, done>>
       ELSE /\ idx' = 0
            /\ list' = <<>>
            /\ todo' = Advance(todo)
            /\ done' = Append(done, [pass |-> p, threw |-> FALSE])

\* The callback threw: the exception leaves forEach and the listener; the
\* event dispatch goes on with the next listener.
Throw(p, target, wrapper) ==
    /\ visits' = Append(visits, Visit(p, target, "threw", wrapper))
    /\ UNCHANGED <<computed, pre, tree0>>
    /\ idx' = 0
    /\ list' = <<>>
    /\ todo' = Tail(todo)
    /\ done' = Append(done, [pass |-> p, threw |-> TRUE])

\* const xs = document.querySelectorAll(selector); xs.forEach(...) begins.
\* Over an empty list forEach calls nothing and the pass is over.
Query(p, selector) ==
    /\ idx = 0
    /\ pre' = childNodes
    /\ UNCHANGED <<childNodes, attrs, computed, tree0, visits>>
    /\ LET found == QuerySelectorAll(childNodes, attrs, selector)
       IN IF found = <<>>
          THEN /\ UNCHANGED <<list, idx>>
               /\ todo' = Advance(todo)
               /\ done' = Append(done, [pass |-> p, threw |-> FALSE])
          ELSE /\ list' = found
               /\ idx' = 1
               /\ UNCHANGED <<todo, done>>

\* The callback is about to run on list[idx].
InCallback(p) == Current = p /\ idx >= 1

\* Nothing of the document changes.
Skip(p, target, outcome) ==
    /\ UNCHANGED <<childNodes, attrs>>
    /\ Return(p, target, outcome, NULL)

\* target.parentNode.insertBefore(wrapper, target); wrapper.appendChild(target)
\* with a freshly created wrapper.
WrapPlain(p, target, w) ==
    LET wrapper == NewId
        parent == ParentNode(childNodes, target)
        created == childNodes @@ (wrapper :> <<>>)
    IN /\ attrs' = attrs @@ (wrapper :> w)
       /\ IF InsertThrows(childNodes, parent)
          THEN /\ childNodes' = created
               /\ Throw(p, target, wrapper)
          ELSE /\ childNodes' =
                     AppendChild(InsertBefore(created, parent, wrapper, target),
                                 wrapper, target)
               /\ Return(p, target, "wrapped", wrapper)

\* The same with the three layers created before the insertion and appended
\* to the wrapper before the target.
WrapLayered(p, target, w, glowCls, darkCls, borderCls) ==
    LET wrapper == NewId
        glow == NewId + 1
        darkBorder == NewId + 2
        border == NewId + 3
        parent == ParentNode(childNodes, target)
        created == childNodes @@ (wrapper :> <<>>) @@ (glow :> <<>>)
                              @@ (darkBorder :> <<>>) @@ (border :> <<>>)
    IN /\ attrs' = attrs @@ (wrapper :> w) @@ (glow :> NewDiv(glowCls, "", ""))
                         @@ (darkBorder :> NewDiv(darkCls, "", ""))
                         @@ (border :> NewDiv(borderCls, "", ""))
       /\ IF InsertThrows(childNodes, parent)
          THEN /\ childNodes' = created
               /\ Throw(p, target, wrapper)
          ELSE /\ childNodes' =
                     AppendChild(
                       AppendChild(
                         AppendChild(
                           AppendChild(
                             InsertBefore(created, parent, wrapper, target),
                             wrapper, glow),
                           wrapper, darkBorder),
                         wrapper, border),
                       wrapper, target)
               /\ Return(p, target, "wrapped", wrapper)

(***************************************************************************)
(* First listener                                                          *)
(***************************************************************************)

\* The guard looking for the button wrapper's class (a faulty variant).
InputWrapped1WrongClass(input) ==
    Closest(childNodes, attrs, input, BTN_WRAPPER) # NULL

\* input.closest('.input-animated-wrapper')
InputWrapped1(input) == Closest(childNodes, attrs, input, INPUT_WRAPPER) # NULL

\* input.classList.contains('search-input')
InputSkipped1(input) == attrs[input].classList \cap InputExcluded1 # {}

\* getComputedStyle(input).width taken before the inline width (a faulty variant).
InputWidthComputedFirst(input) ==
    IF computed[input] # "" THEN computed[input] ELSE attrs[input].styleWidth

\* input.style.width || getComputedStyle(input).width
InputWidth(input) ==
    IF attrs[input].styleWidth # "" THEN attrs[input].styleWidth ELSE computed[input]

QueryInputs1 ==
    /\ Current = 1
    /\ Query(1, InputSelector1)

InputsForEach1 ==
    /\ InCallback(1)
    /\ LET input == list[idx]
       IN IF InputWrapped1(input) THEN Skip(1, input, "wrapped before")
          ELSE IF InputSkipped1(input) THEN Skip(1, input, "excluded")
          ELSE WrapPlain(1, input, NewDiv(INPUT_WRAPPER, InputWidth(input), ""))

\* The guard gone (a faulty variant).
ButtonWrapped1Never(button) == FALSE

\* button.closest('.btn-animated-wrapper')
ButtonWrapped1(button) == Closest(childNodes, attrs, button, BTN_WRAPPER) # NULL

\* The exclusion test negated (a faulty variant).
ButtonSkipped1Negated(button) == attrs[button].classList \cap ButtonExcluded1 = {}

\* classList.contains('nav-btn') || ...('tab-btn') || ...('card-btn')
ButtonSkipped1(button) == attrs[button].classList \cap ButtonExcluded1 # {}

QueryButtons1 ==
    /\ Current = 2
    /\ Query(2, ButtonSelector1)

ButtonsForEach1 ==
    /\ InCallback(2)
    /\ LET button == list[idx]
       IN IF ButtonWrapped1(button) THEN Skip(2, button, "wrapped before")
          ELSE IF ButtonSkipped1(button) THEN Skip(2, button, "excluded")
          ELSE WrapPlain(2, button, NewDiv(BTN_WRAPPER, "", ""))

(***************************************************************************)
(* Second listener                                                         *)
(***************************************************************************)

\* The guard gone (a faulty variant).
InputWrapped2Never(input) == FALSE

\* input.closest('.input-animated-wrapper')
InputWrapped2(input) == Closest(childNodes, attrs, input, INPUT_WRAPPER) # NULL

QueryInputs2 ==
    /\ Current = 3
    /\ Query(3, InputSelector2)

InputsForEach2 ==
    /\ InCallback(3)
    /\ LET input == list[idx]
       IN IF ~InputWrapped2(input)
          THEN WrapLayered(3, input, NewDiv(INPUT_WRAPPER, "", ""),
                           "glow-input", "darkBorderBg-input", "border-input")
          ELSE Skip(3, input, "wrapped before")

\* The guard looking for the other pass's wrapper too (a faulty variant).
ButtonWrapped2AnyWrapper(button) ==
    \/ Closest(childNodes, attrs, button, BTN_WRAPPER) # NULL
    \/ Closest(childNodes, attrs, button, INPUT_WRAPPER) # NULL

\* button.closest('.btn-animated-wrapper')
ButtonWrapped2(button) == Closest(childNodes, attrs, button, BTN_WRAPPER) # NULL

\* classList.contains('nav-btn') || classList.contains('tab-btn')
ButtonSkipped2(button) == attrs[button].classList \cap ButtonExcluded2 # {}

QueryButtons2 ==
    /\ Current = 4
    /\ Query(4, ButtonSelector2)

ButtonsForEach2 ==
    /\ InCallback(4)
    /\ LET button == list[idx]
       IN IF ~ButtonWrapped2(button) /\ ~ButtonSkipped2(button)
          THEN WrapLayered(4, button, NewDiv(BTN_WRAPPER, "", "inline-block"),
                           "glow-btn", "darkBorderBg-btn", "border-btn")
          ELSE Skip(4, button,
                    IF ButtonWrapped2(button) THEN "wrapped before" ELSE "excluded")

Next ==
    \/ QueryInputs1
    \/ InputsForEach1
    \/ QueryButtons1
    \/ ButtonsForEach1
    \/ QueryInputs2
    \/ InputsForEach2
    \/ QueryButtons2
    \/ ButtonsForEach2

\* The page-load run of the script.
Spec == Init /\ [][Next]_vars

\* One pass run twice in a row on a page.
SpecRerun == InitRerun /\ [][Next]_vars

(***************************************************************************)
(* Vocabulary of the properties                                            *)
(***************************************************************************)

WrapperClass(p) == IF p \in {1, 3} THEN INPUT_WRAPPER ELSE BTN_WRAPPER

Selector(p) ==
    CASE p = 1 -> InputSelector1
      [] p = 2 -> ButtonSelector1
      [] p = 3 -> InputSelector2
      [] p = 4 -> ButtonSelector2

Excluded(p) ==
    CASE p = 1 -> InputExcluded1
      [] p = 2 -> ButtonExcluded1
      [] p = 3 -> InputExcluded2
      [] p = 4 -> ButtonExcluded2

\* The element matches the pass's selector and carries none of its excluded classes.
Eligible(p, e) ==
    /\ Matches(attrs[e], Selector(p))
    /\ attrs[e].classList \cap Excluded(p) = {}

RECURSIVE Ancestors(_, _)
\* The proper ancestor elements of n.
Ancestors(ch, n) ==
    LET p == ParentNode(ch, n)
    IN IF p = NULL \/ p = DOCUMENT THEN {} ELSE {p} \cup Ancestors(ch, p)

\* The ancestors of n carrying the class.
AncestorsWith(ch, at, n, cls) == {a \in Ancestors(ch, n) : cls \in at[a].classList}

\* The elements in the document.
Connected(ch) ==
    LET order == DocOrderSeq(ch, ch[DOCUMENT])
    IN {order[i] : i \in 1..Len(order)}

\* The document tree: the child lists of the nodes in the document.
TreeOf(ch) == [n \in {DOCUMENT} \cup Connected(ch) |-> ch[n]]

\* The page held no wrapper element when the script started.
NoWrappersBefore ==
    \A e \in PageElems : attrs[e].classList \cap {INPUT_WRAPPER, BTN_WRAPPER} = {}

\* Every listener has run.
Finished == todo = <<>>

Threw == \E i \in 1..Len(done) : done[i].threw

\* The pass run that pre is the start of: the running one, else the last one.
CurrentRun == IF idx >= 1 THEN Len(done) + 1 ELSE Len(done)

\* A pass has just finished and nothing ran since: the state is its result.
JustFinished == idx = 0 /\ done # <<>>

LastPass == done[Len(done)]

\* The callbacks that wrapped their element.
Wraps == {visits[i] : i \in {j \in 1..Len(visits) : visits[j].outcome = "wrapped"}}

ClassNames(ch, at, w) == [i \in 1..Len(ch[w]) |-> at[ch[w][i]].classList]

(***************************************************************************)
(* C1  Idempotence of each pass.  When a pass is run a second time right   *)
(* after its first run, the document tree stays, through the whole second  *)
(* run, the tree the first run left, and no callback of the second run     *)
(* wraps anything.                                                         *)
(***************************************************************************)
C1_Idempotent ==
    (Len(done) = 2 \/ (Len(done) = 1 /\ idx >= 1)) =>
        /\ TreeOf(childNodes) = TreeOf(pre)
        /\ \A v \in Wraps : v.run = 1

\* Both runs are over, the first wrapped an element and the second came to
\* that element again and left it.
C1_Witness ==
    /\ Len(done) = 2
    /\ \E i, j \in 1..Len(visits) :
        /\ visits[i].run = 1 /\ visits[i].outcome = "wrapped"
        /\ visits[j].run = 2 /\ visits[j].outcome = "wrapped before"
        /\ visits[i].target = visits[j].target

\* No ancestor of the page element e is matched by a selector of the script,
\* so nothing around e is ever wrapped.
StandsAlone(e) ==
    \A a \in Ancestors(tree0, e), p \in Passes : ~Matches(attrs[a], Selector(p))

(***************************************************************************)
(* C2  Exclusion correctness, as claimed (stated for the elements whose    *)
(* ancestors the script leaves alone).  After every listener has run on a  *)
(* page that held no wrapper, no element carrying search-input has an      *)
(* ancestor carrying input-animated-wrapper, and no element carrying       *)
(* nav-btn, tab-btn or card-btn has one carrying btn-animated-wrapper.     *)
(***************************************************************************)
C2_Claimed ==
    (Finished /\ NoWrappersBefore) =>
        \A e \in PageElems :
            StandsAlone(e) =>
                /\ attrs[e].classList \cap InputExcluded1 # {} =>
                       AncestorsWith(childNodes, attrs, e, INPUT_WRAPPER) = {}
                /\ attrs[e].classList \cap ButtonExcluded1 # {} =>
                       AncestorsWith(childNodes, attrs, e, BTN_WRAPPER) = {}

\* In the tree ch the element lies in a wrapper of the pass's class (or is
\* one), or below an element the pass is to wrap.
Enclosed(ch, p, e) ==
    \/ WrapperClass(p) \in attrs[e].classList
    \/ AncestorsWith(ch, attrs, e, WrapperClass(p)) # {}
    \/ \E a \in Ancestors(ch, e) : Eligible(p, a)

(***************************************************************************)
(* C3  Structural completeness (parent), as claimed (stated for the pages  *)
(* that held no wrapper and the passes that ended without an exception).   *)
(* Right after a pass, every element that matches the pass's selector and  *)
(* carries none of its excluded classes has a parent carrying the pass's   *)
(* wrapper class.                                                          *)
(***************************************************************************)
C3_Claimed ==
    (JustFinished /\ NoWrappersBefore /\ ~Threw) =>
        \A e \in Connected(childNodes) :
            Eligible(LastPass.pass, e) =>
                LET parent == ParentNode(childNodes, e)
                IN /\ parent # DOCUMENT
                   /\ WrapperClass(LastPass.pass) \in attrs[parent].classList

(***************************************************************************)
(* C3  as amended.  Right after a pass that ended without an exception,    *)
(* every element that matches the pass's selector and carries none of its  *)
(* excluded classes has as parent a wrapper the pass created, unless, when *)
(* the pass began, it was enclosed: it carried the wrapper class itself,   *)
(* or had an ancestor carrying it, or had an ancestor the pass was to wrap.*)
(* An enclosed element keeps the parent it had.  A pass ends with an       *)
(* exception only on the root element being one it is to wrap, and then    *)
(* leaves the tree as it found it.                                         *)
(***************************************************************************)
C3_ParentUnlessEnclosed ==
    JustFinished =>
        LET p == LastPass.pass
        IN IF LastPass.threw
           THEN /\ TreeOf(childNodes) = TreeOf(pre)
                /\ Eligible(p, ROOT)
                /\ WrapperClass(p) \notin attrs[ROOT].classList
           ELSE \A e \in Connected(pre) :
                    Eligible(p, e) =>
                        LET parent == ParentNode(childNodes, e)
                        IN IF Enclosed(pre, p, e)
                           THEN parent = ParentNode(pre, e)
                           ELSE /\ parent \notin DOMAIN pre
                                /\ WrapperClass(p) \in attrs[parent].classList

\* A pass has wrapped an element and left alone an element below it that it
\* would have wrapped too.
C3_Witness ==
    /\ JustFinished
    /\ ~LastPass.threw
    /\ NoWrappersBefore
    /\ \E e \in Connected(pre), f \in Connected(pre) :
        /\ Eligible(LastPass.pass, e) /\ Eligible(LastPass.pass, f)
        /\ e \in Ancestors(pre, f)
        /\ ParentNode(childNodes, e) \notin DOMAIN pre
        /\ ParentNode(childNodes, f) = ParentNode(pre, f)

\* The wrapper's children are the three layers of the given kind, in order,
\* and then the target.
Layered(w, kind, target) ==
    /\ Len(childNodes[w]) = 4
    /\ ClassNames(childNodes, attrs, w)[1] = {"glow-" \o kind}
    /\ ClassNames(childNodes, attrs, w)[2] = {"darkBorderBg-" \o kind}
    /\ ClassNames(childNodes, attrs, w)[3] = {"border-" \o kind}
    /\ childNodes[w][4] = target

(***************************************************************************)
(* C4  Structural completeness (layers), as claimed (stated for the pages  *)
(* that held no wrapper, the runs without an exception and the elements    *)
(* whose ancestors the script leaves alone).  After the page-load run,     *)
(* every element matching the second listener's input selector, and every  *)
(* element matching its button selector that carries neither nav-btn nor   *)
(* tab-btn, is the last child of a wrapper holding, before it, the glow,   *)
(* the darkBorderBg and the border layer.                                  *)
(***************************************************************************)
C4_Claimed ==
    (Finished /\ NoWrappersBefore /\ ~Threw) =>
        \A e \in PageElems :
            StandsAlone(e) /\ e # ROOT =>
                /\ Eligible(3, e) =>
                       \E w \in Ancestors(childNodes, e) :
                           /\ INPUT_WRAPPER \in attrs[w].classList
                           /\ Layered(w, "input", e)
                /\ (Eligible(4, e) /\ ~Eligible(3, e)) =>
                       \E w \in Ancestors(childNodes, e) :
                           /\ BTN_WRAPPER \in attrs[w].classList
                           /\ Layered(w, "btn", e)

\* The elements of the tree ch in document order.
Order(ch) == DocOrderSeq(ch, ch[DOCUMENT])

\* In the tree ch, a and b are children of one parent, a before b.
SiblingsInOrder(ch, a, b) ==
    LET parent == ParentNode(ch, a)
    IN /\ parent # NULL
       /\ parent = ParentNode(ch, b)
       /\ IndexOf(ch[parent], a) < IndexOf(ch[parent], b)

(***************************************************************************)
(* C5  Order preservation.  At every point of a pass the elements that     *)
(* were in the document when the pass began stand in the document order    *)
(* they had then, and the elements of the page as loaded stand in their    *)
(* original order through the whole run; when the pass has wrapped two     *)
(* children A before B of one parent, A's wrapper stands before B's        *)
(* wrapper under that same parent.                                         *)
(***************************************************************************)
C5_OrderPreserved ==
    /\ SelectSeq(Order(childNodes), LAMBDA n : n \in Connected(pre)) = Order(pre)
    /\ SelectSeq(Order(childNodes), LAMBDA n : n \in PageElems) = Order(tree0)
    /\ \A a \in Wraps, b \in Wraps :
        (a.run = CurrentRun /\ b.run = CurrentRun
            /\ SiblingsInOrder(pre, a.target, b.target)) =>
               /\ SiblingsInOrder(childNodes, a.wrapper, b.wrapper)
               /\ ParentNode(childNodes, a.wrapper) = ParentNode(pre, a.target)

\* A pass has just wrapped two children of one parent.
C5_Witness ==
    /\ JustFinished
    /\ \E a \in Wraps, b \in Wraps :
        /\ a.run = CurrentRun /\ b.run = CurrentRun
        /\ SiblingsInOrder(pre, a.target, b.target)

CreatedWrappersAbove(e) ==
    {a \in Ancestors(childNodes, e) :
        a \notin PageElems /\ attrs[a].classList \cap {INPUT_WRAPPER, BTN_WRAPPER} # {}}

(***************************************************************************)
(* C7  At most one wrapper per target, as claimed (stated for the runs     *)
(* without an exception and the elements whose ancestors the script leaves *)
(* alone).  After the page-load run on a page that held no wrapper, every  *)
(* element has at most one wrapper created by the script among its         *)
(* ancestors.                                                              *)
(***************************************************************************)
C7_Claimed ==
    (Finished /\ NoWrappersBefore /\ ~Threw) =>
        \A e \in PageElems :
            StandsAlone(e) => Cardinality(CreatedWrappersAbove(e)) <= 1

(***************************************************************************)
(* C7  as amended.  The script creates, for any one element, at most one   *)
(* wrapper of each class; and on a page that held no wrapper an element    *)
(* has at most as many ancestors of one wrapper class as it has ancestors  *)
(* of the page below the root, itself counted.                             *)
(***************************************************************************)
C7_OneWrapperPerClass ==
    /\ \A a \in Wraps, b \in Wraps :
        (a.target = b.target /\ WrapperClass(a.pass) = WrapperClass(b.pass)) => a = b
    /\ NoWrappersBefore =>
        \A e \in PageElems, cls \in {INPUT_WRAPPER, BTN_WRAPPER} :
            Cardinality(AncestorsWith(childNodes, attrs, e, cls))
                <= Cardinality(((Ancestors(childNodes, e) \cup {e}) \cap PageElems)
                                   \ {ROOT})

\* The run is over on a page that held no wrapper, and an element matching an
\* input and a button selector has got a wrapper of each class.
C7_Witness ==
    /\ Finished
    /\ NoWrappersBefore
    /\ \E a \in Wraps, b \in Wraps :
        /\ a.target = b.target
        /\ WrapperClass(a.pass) = INPUT_WRAPPER
        /\ WrapperClass(b.pass) = BTN_WRAPPER

\* No element of the page matches any selector of the script.
NoMatch == \A e \in PageElems, p \in Passes : ~Matches(attrs[e], Selector(p))

(***************************************************************************)
(* C8  No-op on an empty match set.  On a page none of whose elements      *)
(* matches a selector of the script, the run creates no element, moves     *)
(* none, calls no callback and throws nothing: the tree stays the tree as  *)
(* loaded.                                                                 *)
(***************************************************************************)
C8_NoOp ==
    NoMatch =>
        /\ childNodes = tree0
        /\ Elements = PageElems
        /\ visits = <<>>
        /\ ~Threw

\* The run is over on such a page.
C8_Witness == NoMatch /\ Finished /\ Len(done) = 4

\* The pass that pre is the start of.
RunPass == IF idx >= 1 THEN Current ELSE IF done = <<>> THEN 0 ELSE LastPass.pass

\* The wrappers the input passes created.
InputWraps == {v \in Wraps : v.pass \in {1, 3}}

\* Every callback that returned on its closest() guard did so on a wrapper of
\* its own pass's class.
GuardsOwnClass ==
    \A i \in 1..Len(visits) :
        visits[i].outcome = "wrapped before" =>
            Closest(childNodes, attrs, visits[i].target,
                    WrapperClass(visits[i].pass)) # NULL

(***************************************************************************)
(* C9  Input and button passes do not interfere, as claimed.  Through a    *)
(* button pass the child list of every wrapper an input pass created stays *)
(* what it was when the button pass began, with the input as last child;   *)
(* and no callback returns on its guard because of a wrapper of the other  *)
(* class.                                                                  *)
(***************************************************************************)
C9_Claimed ==
    /\ RunPass \in {2, 4} =>
        \A v \in InputWraps :
            /\ childNodes[v.wrapper] = pre[v.wrapper]
            /\ childNodes[v.wrapper][Len(childNodes[v.wrapper])] = v.target
    /\ GuardsOwnClass

(***************************************************************************)
(* C9  as amended.  Through a button pass the child list of a wrapper an   *)
(* input pass created stays what it was when the button pass began, unless *)
(* the wrapped input is itself an element the button pass wraps: then the  *)
(* button wrapper takes the input's place as last child of the input       *)
(* wrapper and holds the input as its own last child.  A callback returns  *)
(* on its guard only on a wrapper of its own class: after a button pass    *)
(* that ended without an exception, every element it was to wrap lies in   *)
(* a button wrapper, also when it lies in an input wrapper.                *)
(***************************************************************************)
C9_InterfereOnlyOnSharedTarget ==
    /\ RunPass \in {2, 4} =>
        \A v \in InputWraps :
            \/ childNodes[v.wrapper] = pre[v.wrapper]
            \/ \E b \in Wraps :
                /\ b.run = CurrentRun
                /\ b.target = v.target
                /\ Eligible(RunPass, v.target)
                /\ pre[v.wrapper][Len(pre[v.wrapper])] = v.target
                /\ childNodes[v.wrapper] =
                       [pre[v.wrapper] EXCEPT ![Len(pre[v.wrapper])] = b.wrapper]
                /\ childNodes[b.wrapper][Len(childNodes[b.wrapper])] = v.target
    /\ GuardsOwnClass
    /\ (JustFinished /\ ~LastPass.threw /\ LastPass.pass \in {2, 4}) =>
        \A e \in Connected(childNodes) :
            Eligible(LastPass.pass, e) =>
                Closest(childNodes, attrs, e, BTN_WRAPPER) # NULL

\* A button pass has just wrapped, inside its input wrapper, an input that an
\* input pass had wrapped, and has wrapped an element lying in an input
\* wrapper.
C9_Witness ==
    /\ JustFinished
    /\ LastPass.pass \in {2, 4}
    /\ \E v \in InputWraps, b \in Wraps :
        /\ b.run = CurrentRun
        /\ b.target = v.target
        /\ childNodes[v.wrapper] # pre[v.wrapper]
        /\ AncestorsWith(childNodes, attrs, b.wrapper, INPUT_WRAPPER) # {}

\* One step of the script, as to decoration being one-way and one-time.
OneWayStep ==
    /\ \A e \in Elements, cls \in {INPUT_WRAPPER, BTN_WRAPPER} :
        AncestorsWith(childNodes, attrs, e, cls) # {} =>
            AncestorsWith(childNodes', attrs', e, cls) # {}
    /\ \A w \in Connected(childNodes) :
        attrs[w].classList \cap {INPUT_WRAPPER, BTN_WRAPPER} # {} =>
            w \in Connected(childNodes')
    /\ \A i \in 1..Len(visits') :
        visits'[i].outcome = "wrapped" =>
            /\ visits'[i].wrapper \in Connected(childNodes')
            /\ visits'[i].wrapper \in Ancestors(childNodes', visits'[i].target)
    /\ \A i \in (Len(visits) + 1)..Len(visits') :
        visits'[i].wrapper # NULL =>
            LET t == visits'[i].target
                cls == WrapperClass(visits'[i].pass)
            IN /\ Closest(childNodes, attrs, t, cls) = NULL
               /\ \A u \in Wraps : u.target = t => WrapperClass(u.pass) # cls

(***************************************************************************)
(* C10  Decoration is one-way and one-time.  In every step of the run: an  *)
(* element that has an ancestor of a wrapper class has one after the step; *)
(* a wrapper element in the document is in the document after the step;    *)
(* every wrapper the script has put in has its target below it; and a      *)
(* callback creates a wrapper only for an element that neither lies in a   *)
(* wrapper of that class nor has had one created for it.                   *)
(***************************************************************************)
C10_OneWay == [][OneWayStep]_vars

\* The run is over; an element wrapped by one listener was come to again by
\* the other listener and left as it was.
C10_Witness ==
    /\ Finished
    /\ \E v \in Wraps :
        \E j \in 1..Len(visits) :
            /\ visits[j].target = v.target
            /\ visits[j].run > v.run
            /\ visits[j].outcome = "wrapped before"
            /\ WrapperClass(visits[j].pass) = WrapperClass(v.pass)

====
